---- MODULE Spec2Model ----
(***************************************************************************)
(* bmf2obj: the BMF binary decoder (load_bmf) and the mesh-to-OBJ mapping  *)
(* done in main, modelled from src/src/main.rs.                            *)
(*                                                                         *)
(* Number representation.  TLC integers are 32-bit signed, so a u32 is     *)
(* kept as two 16-bit halves [hi, lo] (value = hi * 65536 + lo), an f32 as *)
(* its IEEE-754 bit pattern in the same form, a usize as a zero-extended   *)
(* u32 with an explicit upper word, and an f64 as its fields               *)
(* [sign, exp, frac_hi, frac_lo] (frac_hi: top 23 bits of the 52-bit       *)
(* fraction, frac_lo: low 29 bits).                                        *)
(***************************************************************************)
EXTENDS Integers, Sequences, FiniteSets, TLC

VARIABLES
    layout,       \* the document the input bytes were laid out from (test data)
    input,        \* the bytes the source (file or HTTP body) delivers
    pc,           \* position of the program in main / load_bmf
    pos,          \* number of bytes of the reader consumed so far
    reader_open,  \* the reader (File / Response) is alive
    i,            \* loop counter of the current for loop of load_bmf
    bmf,          \* load_bmf's local `bmf` (BMF::new() outside the call)
    main_bmf,     \* main's `bmf` binding (None until load_bmf returned Ok)
    obj_verts,    \* main's obj_verts
    obj_shapes,   \* main's obj_shapes
    object_set,   \* main's object_set
    out_file      \* the destination file of export_to_file

vars == <<layout, input, pc, pos, reader_open, i, bmf, main_bmf,
          obj_verts, obj_shapes, object_set, out_file>>

\* Option<T>: None is the empty tuple, Some(x) the one-element tuple
None == <<>>

Some(x) == <<x>>

(***************************************************************************)
(* Bounds of the checked inputs.                                           *)
(***************************************************************************)
MaxCount == 1      \* most records per block (vertices, faces, normals)
MaxTrail == 1      \* most bytes after the document footer

(***************************************************************************)
(* Data structures and constructors.                                       *)
(***************************************************************************)
U32Zero == [hi |-> 0, lo |-> 0]

Vertices_new == [header |-> U32Zero, len |-> U32Zero, vertices |-> <<>>, footer |-> U32Zero]

Faces_new == [header |-> U32Zero, len |-> U32Zero, faces |-> <<>>, footer |-> U32Zero]

Normals_new == [header |-> U32Zero, len |-> U32Zero, normals |-> <<>>, footer |-> U32Zero]

Group_new == [header |-> U32Zero, faces |-> Faces_new, normals |-> Normals_new, footer |-> U32Zero]

BMF_new == [header |-> U32Zero, vertices |-> Vertices_new, group |-> Group_new, footer |-> U32Zero]

(***************************************************************************)
(* Conversions.                                                            *)
(***************************************************************************)
\* the bytes taken most significant first
u32_from_be_bytes(b) == [hi |-> b[1] * 256 + b[2], lo |-> b[3] * 256 + b[4]]

\* u32::from_le_bytes: byte 1 is the least significant
u32_from_le_bytes(b) == [hi |-> b[4] * 256 + b[3], lo |-> b[2] * 256 + b[1]]

\* f32::from_le_bytes: the bit pattern of the float, least significant byte first
f32_from_le_bytes(b) == [hi |-> b[4] * 256 + b[3], lo |-> b[2] * 256 + b[1]]

as_vertex_le(array) ==
    [x |-> f32_from_le_bytes(SubSeq(array, 1, 4)),
     y |-> f32_from_le_bytes(SubSeq(array, 5, 8)),
     z |-> f32_from_le_bytes(SubSeq(array, 9, 12))]

as_face_le(array) ==
    [a |-> u32_from_le_bytes(SubSeq(array, 1, 4)),
     b |-> u32_from_le_bytes(SubSeq(array, 5, 8)),
     c |-> u32_from_le_bytes(SubSeq(array, 9, 12))]

RECURSIVE Pow2(_)
Pow2(n) == IF n = 0 THEN 1 ELSE 2 * Pow2(n - 1)

\* position of the most significant set bit of m > 0
RECURSIVE Msb(_)
Msb(m) == IF m < 2 THEN 0 ELSE 1 + Msb(m \div 2)

\* `v as f64` for an f32 v: the IEEE-754 binary32 -> binary64 conversion
f32_as_f64(f) ==
    LET sign == f.hi \div 32768
        exp  == (f.hi % 32768) \div 128
        frac == (f.hi % 128) * 65536 + f.lo
    IN  IF exp = 255
        THEN IF frac = 0
             THEN [sign |-> sign, exp |-> 2047, frac_hi |-> 0, frac_lo |-> 0]
             ELSE \* a NaN stays a NaN (quieted, payload kept in the top bits)
                  [sign |-> sign, exp |-> 2047,
                   frac_hi |-> IF frac >= 4194304 THEN frac ELSE frac + 4194304,
                   frac_lo |-> 0]
        ELSE IF exp = 0
        THEN IF frac = 0
             THEN [sign |-> sign, exp |-> 0, frac_hi |-> 0, frac_lo |-> 0]
             ELSE \* an f32 subnormal is a normal f64
                  LET p == Msb(frac)
                  IN  [sign |-> sign, exp |-> 874 + p,
                       frac_hi |-> (frac - Pow2(p)) * Pow2(23 - p), frac_lo |-> 0]
        ELSE [sign |-> sign, exp |-> exp + 896, frac_hi |-> frac, frac_lo |-> 0]

\* the index renumbered to the one-based convention of OBJ
u32_as_VertexIndex_one_based(u) ==
    IF u.lo = 65535 THEN [top |-> IF u.hi = 65535 THEN 1 ELSE 0, hi |-> (u.hi + 1) % 65536, lo |-> 0]
    ELSE [top |-> 0, hi |-> u.hi, lo |-> u.lo + 1]

\* `f.a as VertexIndex`: u32 -> usize zero extension
u32_as_VertexIndex(u) == [top |-> 0, hi |-> u.hi, lo |-> u.lo]

\* the range test of `0..=len`
in_range_inclusive(k, len) == len.hi > 0 \/ k <= len.lo

\* the range test of `for _i in 0..len`
in_range(k, len) == len.hi > 0 \/ k < len.lo


(***************************************************************************)
(* load_bmf, one read_exact per step.  st = [pc, pos, i, bmf] is the state *)
(* of one call: the statement about to run, the bytes consumed, the loop   *)
(* counter and the local `bmf`.                                            *)
(***************************************************************************)
\* reader.read_exact(&mut buf) succeeds iff n more bytes are available
can_read(src, st, n) == st.pos + n <= Len(src)

\* the bytes a successful read_exact of n bytes leaves in the buffer
buffer(src, st, n) == SubSeq(src, st.pos + 1, st.pos + n)

\* `?` on a failed read_exact: the rest of the source is consumed, Err returned
read_failed(src, st) == [st EXCEPT !.pc = "return_err", !.pos = Len(src)]

\* where a counted loop goes after k iterations
loop_or(k, len, body, after) == IF in_range(k, len) THEN body ELSE after

\* the header compared with a magic number, any other value rejected
read_bmf_header_checked(src, st) ==
    IF can_read(src, st, 4) /\ u32_from_le_bytes(buffer(src, st, 4)) = [hi |-> 0, lo |-> 0]
    THEN [st EXCEPT !.bmf.header = u32_from_le_bytes(buffer(src, st, 4)),
                    !.pos = @ + 4, !.pc = "vertices_header"]
    ELSE read_failed(src, st)

read_bmf_header(src, st) ==
    IF can_read(src, st, 4)
    THEN [st EXCEPT !.bmf.header = u32_from_le_bytes(buffer(src, st, 4)),
                    !.pos = @ + 4, !.pc = "vertices_header"]
    ELSE read_failed(src, st)

read_vertices_header(src, st) ==
    IF can_read(src, st, 4)
    THEN [st EXCEPT !.bmf.vertices.header = u32_from_le_bytes(buffer(src, st, 4)),
                    !.pos = @ + 4, !.pc = "vertices_len"]
    ELSE read_failed(src, st)

read_vertices_len(src, st) ==
    IF can_read(src, st, 4)
    THEN LET len == u32_from_le_bytes(buffer(src, st, 4))
         IN  [st EXCEPT !.bmf.vertices.len = len, !.pos = @ + 4, !.i = 0,
                        !.pc = loop_or(0, len, "vertex", "vertices_footer")]
    ELSE read_failed(src, st)

read_vertex(src, st) ==
    IF can_read(src, st, 12)
    THEN [st EXCEPT !.bmf.vertices.vertices = Append(@, as_vertex_le(buffer(src, st, 12))),
                    !.pos = @ + 12, !.i = @ + 1,
                    !.pc = loop_or(st.i + 1, st.bmf.vertices.len, "vertex", "vertices_footer")]
    ELSE read_failed(src, st)

read_vertices_footer(src, st) ==
    IF can_read(src, st, 4)
    THEN [st EXCEPT !.bmf.vertices.footer = u32_from_le_bytes(buffer(src, st, 4)),
                    !.pos = @ + 4, !.pc = "group_header"]
    ELSE read_failed(src, st)

read_group_header(src, st) ==
    IF can_read(src, st, 4)
    THEN [st EXCEPT !.bmf.group.header = u32_from_le_bytes(buffer(src, st, 4)),
                    !.pos = @ + 4, !.pc = "faces_header"]
    ELSE read_failed(src, st)

read_faces_header(src, st) ==
    IF can_read(src, st, 4)
    THEN [st EXCEPT !.bmf.group.faces.header = u32_from_le_bytes(buffer(src, st, 4)),
                    !.pos = @ + 4, !.pc = "faces_len"]
    ELSE read_failed(src, st)

read_faces_len(src, st) ==
    IF can_read(src, st, 4)
    THEN LET len == u32_from_le_bytes(buffer(src, st, 4))
         IN  [st EXCEPT !.bmf.group.faces.len = len, !.pos = @ + 4, !.i = 0,
                        !.pc = loop_or(0, len, "face", "faces_footer")]
    ELSE read_failed(src, st)

read_face(src, st) ==
    IF can_read(src, st, 12)
    THEN [st EXCEPT !.bmf.group.faces.faces = Append(@, as_face_le(buffer(src, st, 12))),
                    !.pos = @ + 12, !.i = @ + 1,
                    !.pc = loop_or(st.i + 1, st.bmf.group.faces.len, "face", "faces_footer")]
    ELSE read_failed(src, st)

read_faces_footer(src, st) ==
    IF can_read(src, st, 4)
    THEN [st EXCEPT !.bmf.group.faces.footer = u32_from_le_bytes(buffer(src, st, 4)),
                    !.pos = @ + 4, !.pc = "normals_header"]
    ELSE read_failed(src, st)

read_normals_header(src, st) ==
    IF can_read(src, st, 4)
    THEN [st EXCEPT !.bmf.group.normals.header = u32_from_le_bytes(buffer(src, st, 4)),
                    !.pos = @ + 4, !.pc = "normals_len"]
    ELSE read_failed(src, st)

read_normals_len(src, st) ==
    IF can_read(src, st, 4)
    THEN LET len == u32_from_le_bytes(buffer(src, st, 4))
         IN  [st EXCEPT !.bmf.group.normals.len = len, !.pos = @ + 4, !.i = 0,
                        !.pc = loop_or(0, len, "normal", "normals_footer")]
    ELSE read_failed(src, st)

read_normal(src, st) ==
    IF can_read(src, st, 12)
    THEN [st EXCEPT !.bmf.group.normals.normals = Append(@, as_vertex_le(buffer(src, st, 12))),
                    !.pos = @ + 12, !.i = @ + 1,
                    !.pc = loop_or(st.i + 1, st.bmf.group.normals.len, "normal", "normals_footer")]
    ELSE read_failed(src, st)

read_normals_footer(src, st) ==
    IF can_read(src, st, 4)
    THEN [st EXCEPT !.bmf.group.normals.footer = u32_from_le_bytes(buffer(src, st, 4)),
                    !.pos = @ + 4, !.pc = "group_footer"]
    ELSE read_failed(src, st)

\* the group footer left out of the reads
read_group_footer_skipped(src, st) == [st EXCEPT !.pc = "bmf_footer"]

read_group_footer(src, st) ==
    IF can_read(src, st, 4)
    THEN [st EXCEPT !.bmf.group.footer = u32_from_le_bytes(buffer(src, st, 4)),
                    !.pos = @ + 4, !.pc = "bmf_footer"]
    ELSE read_failed(src, st)

\* the result of the last read_exact ignored
read_bmf_footer_unchecked(src, st) ==
    IF can_read(src, st, 4)
    THEN [st EXCEPT !.bmf.footer = u32_from_le_bytes(buffer(src, st, 4)),
                    !.pos = @ + 4, !.pc = "return_ok"]
    ELSE [st EXCEPT !.pos = Len(src), !.pc = "return_ok"]

read_bmf_footer(src, st) ==
    IF can_read(src, st, 4)
    THEN [st EXCEPT !.bmf.footer = u32_from_le_bytes(buffer(src, st, 4)),
                    !.pos = @ + 4, !.pc = "return_ok"]
    ELSE read_failed(src, st)

\* the statement of load_bmf at st.pc
load_step(src, st) ==
    CASE st.pc = "bmf_header"      -> read_bmf_header(src, st)
      [] st.pc = "vertices_header" -> read_vertices_header(src, st)
      [] st.pc = "vertices_len"    -> read_vertices_len(src, st)
      [] st.pc = "vertex"          -> read_vertex(src, st)
      [] st.pc = "vertices_footer" -> read_vertices_footer(src, st)
      [] st.pc = "group_header"    -> read_group_header(src, st)
      [] st.pc = "faces_header"    -> read_faces_header(src, st)
      [] st.pc = "faces_len"       -> read_faces_len(src, st)
      [] st.pc = "face"            -> read_face(src, st)
      [] st.pc = "faces_footer"    -> read_faces_footer(src, st)
      [] st.pc = "normals_header"  -> read_normals_header(src, st)
      [] st.pc = "normals_len"     -> read_normals_len(src, st)
      [] st.pc = "normal"          -> read_normal(src, st)
      [] st.pc = "normals_footer"  -> read_normals_footer(src, st)
      [] st.pc = "group_footer"    -> read_group_footer(src, st)
      [] st.pc = "bmf_footer"      -> read_bmf_footer(src, st)
      [] OTHER                     -> st

\* the state of a call at entry: `let mut bmf: BMF = BMF::new()`
load_entry == [pc |-> "bmf_header", pos |-> 0, i |-> 0, bmf |-> BMF_new]

RECURSIVE load_run(_, _)
load_run(src, st) ==
    IF st.pc \in {"return_ok", "return_err"} THEN st ELSE load_run(src, load_step(src, st))

\* a whole call of load_bmf on the bytes src: Ok(bmf) or Err
load_bmf(src) ==
    LET st == load_run(src, load_entry)
    IN  IF st.pc = "return_ok" THEN [ok |-> TRUE, bmf |-> Some(st.bmf), pos |-> st.pos]
        ELSE [ok |-> FALSE, bmf |-> None, pos |-> st.pos]

(***************************************************************************)
(* The mapping of main: BMF -> obj_exporter object graph.                  *)
(***************************************************************************)
\* y and z exchanged (a change of the up axis)
map_vertex_yz_swapped(v) == [x |-> f32_as_f64(v.x), y |-> f32_as_f64(v.z), z |-> f32_as_f64(v.y)]

map_vertex(v) == [x |-> f32_as_f64(v.x), y |-> f32_as_f64(v.y), z |-> f32_as_f64(v.z)]

\* every vertex reference carrying a normal index
map_face_with_normals(f) ==
    [primitive |-> [kind |-> "Triangle",
                    v1 |-> <<u32_as_VertexIndex(f.a), None, Some(u32_as_VertexIndex(f.a))>>,
                    v2 |-> <<u32_as_VertexIndex(f.b), None, Some(u32_as_VertexIndex(f.b))>>,
                    v3 |-> <<u32_as_VertexIndex(f.c), None, Some(u32_as_VertexIndex(f.c))>>],
     groups |-> <<>>,
     smoothing_groups |-> <<>>]

map_face(f) ==
    [primitive |-> [kind |-> "Triangle",
                    v1 |-> <<u32_as_VertexIndex(f.a), None, None>>,
                    v2 |-> <<u32_as_VertexIndex(f.b), None, None>>,
                    v3 |-> <<u32_as_VertexIndex(f.c), None, None>>],
     groups |-> <<>>,
     smoothing_groups |-> <<>>]

make_obj_verts(b) ==
    [k \in 1..Len(b.vertices.vertices) |-> map_vertex(b.vertices.vertices[k])]

make_obj_shapes(b) ==
    [k \in 1..Len(b.group.faces.faces) |-> map_face(b.group.faces.faces[k])]

\* the decoded normals forwarded to the object
make_object_set_with_normals(verts, shapes) ==
    [material_library |-> None,
     objects |-> << [name |-> "",
                     vertices |-> verts,
                     tex_vertices |-> <<>>,
                     normals |-> [k \in 1..Len(main_bmf[1].group.normals.normals) |->
                                    map_vertex(main_bmf[1].group.normals.normals[k])],
                     geometry |-> << [material_name |-> None, shapes |-> shapes] >>] >>]

make_object_set(verts, shapes) ==
    [material_library |-> None,
     objects |-> << [name |-> "",
                     vertices |-> verts,
                     tex_vertices |-> <<>>,
                     normals |-> <<>>,
                     geometry |-> << [material_name |-> None, shapes |-> shapes] >>] >>]

\* the whole mapping, as main composes it
map_bmf(b) == make_object_set(make_obj_verts(b), make_obj_shapes(b))


(***************************************************************************)
(* The inputs checked: a document laid out as the doc comment of load_bmf  *)
(* describes, followed by up to MaxTrail more bytes, cut at any offset.    *)
(***************************************************************************)
\* the ten header / footer fields, in stream order
DocHeader == 1
VerticesHeader == 2
VerticesFooter == 3
GroupHeader == 4
FacesHeader == 5
FacesFooter == 6
NormalsHeader == 7
NormalsFooter == 8
GroupFooter == 9
DocFooter == 10
MarkerFields == 1..10

ZeroMarkers == [f \in MarkerFields |-> <<0, 0, 0, 0>>]

\* a different value in every field, a different byte at every offset
MixedMarkers == [f \in MarkerFields |-> <<f, 16 + f, 32 + f, 240 + f>>]

MarkerChoices == {ZeroMarkers, MixedMarkers}

\* 12-byte vertex / normal records: (1.0, 2.0, 3.0) and (NaN, -subnormal, subnormal)
VertexRecords ==
    { <<0, 0, 128, 63,  0, 0, 0, 64,  0, 0, 64, 64>>,
      <<255, 255, 255, 255,  3, 0, 0, 128,  2, 1, 0, 0>> }

\* 12-byte face records: (0, 1, 2) and (2^32 - 1, 2^31 + 3, 258)
FaceRecords ==
    { <<0, 0, 0, 0,  1, 0, 0, 0,  2, 0, 0, 0>>,
      <<255, 255, 255, 255,  3, 0, 0, 128,  2, 1, 0, 0>> }

TrailByte == 7

SeqsUpTo(S, n) == UNION { [1..k -> S] : k \in 0..n }

RECURSIVE Flatten(_)
Flatten(recs) == IF recs = <<>> THEN <<>> ELSE Head(recs) \o Flatten(Tail(recs))

\* the count field of a block holding n records
CountField(n) == <<n % 256, (n \div 256) % 256, 0, 0>>

Block(header, recs, footer) == header \o CountField(Len(recs)) \o Flatten(recs) \o footer

\* the bytes of a whole document
DocBytes(m, vs, fs, ns) ==
    m[DocHeader]
    \o Block(m[VerticesHeader], vs, m[VerticesFooter])
    \o m[GroupHeader]
    \o Block(m[FacesHeader], fs, m[FacesFooter])
    \o Block(m[NormalsHeader], ns, m[NormalsFooter])
    \o m[GroupFooter]
    \o m[DocFooter]

\* length of a whole document: 13 four-byte fields and the records
DocLen(l) == 52 + 12 * (Len(l.vertices) + Len(l.faces) + Len(l.normals))

\* the bytes the source delivers for layout l
StreamOf(l) ==
    SubSeq(DocBytes(l.markers, l.vertices, l.faces, l.normals)
             \o [k \in 1..MaxTrail |-> TrailByte],
           1, l.cut)

Layouts ==
    { [markers |-> m, vertices |-> vs, faces |-> fs, normals |-> ns, cut |-> c] :
        m \in MarkerChoices,
        vs \in SeqsUpTo(VertexRecords, MaxCount),
        fs \in SeqsUpTo(FaceRecords, MaxCount),
        ns \in SeqsUpTo(VertexRecords, MaxCount),
        c \in 0..(52 + 36 * MaxCount + MaxTrail) }

(***************************************************************************)
(* The program.                                                            *)
(***************************************************************************)
Init ==
    /\ layout \in { l \in Layouts : l.cut <= DocLen(l) + MaxTrail }
    /\ input = StreamOf(layout)
    /\ pc = "start"
    /\ pos = 0
    /\ reader_open = FALSE
    /\ i = 0
    /\ bmf = BMF_new
    /\ main_bmf = None
    /\ obj_verts = None
    /\ obj_shapes = None
    /\ object_set = None
    /\ out_file = "untouched"

main_rest == <<main_bmf, obj_verts, obj_shapes, object_set, out_file>>

\* (Some(file), None): File::open(file).expect(..), then the call of load_bmf
OpenFile ==
    /\ pc = "start"
    /\ \E opened \in BOOLEAN :
         IF opened
         THEN /\ reader_open' = TRUE
              /\ pc' = load_entry.pc
              /\ pos' = load_entry.pos
              /\ i' = load_entry.i
              /\ bmf' = load_entry.bmf
         ELSE /\ pc' = "panic"
              /\ UNCHANGED <<reader_open, pos, i, bmf>>
    /\ UNCHANGED <<layout, input, main_rest>>

\* (None, Some(url)): reqwest::blocking::get(url).expect(..), then the call of load_bmf
GetUrl ==
    /\ pc = "start"
    /\ \E fetched \in BOOLEAN :
         IF fetched
         THEN /\ reader_open' = TRUE
              /\ pc' = load_entry.pc
              /\ pos' = load_entry.pos
              /\ i' = load_entry.i
              /\ bmf' = load_entry.bmf
         ELSE /\ pc' = "panic"
              /\ UNCHANGED <<reader_open, pos, i, bmf>>
    /\ UNCHANGED <<layout, input, main_rest>>

\* the statement of load_bmf at label p
LoadStep(p) ==
    /\ pc = p
    /\ LET st == load_step(input, [pc |-> pc, pos |-> pos, i |-> i, bmf |-> bmf])
       IN  /\ pc' = st.pc
           /\ pos' = st.pos
           /\ i' = st.i
           /\ bmf' = st.bmf
    /\ UNCHANGED <<layout, input, reader_open, main_rest>>

ReadBmfHeader == LoadStep("bmf_header")
ReadVerticesHeader == LoadStep("vertices_header")
ReadVerticesLen == LoadStep("vertices_len")
ReadVertex == LoadStep("vertex")
ReadVerticesFooter == LoadStep("vertices_footer")
ReadGroupHeader == LoadStep("group_header")
ReadFacesHeader == LoadStep("faces_header")
ReadFacesLen == LoadStep("faces_len")
ReadFace == LoadStep("face")
ReadFacesFooter == LoadStep("faces_footer")
ReadNormalsHeader == LoadStep("normals_header")
ReadNormalsLen == LoadStep("normals_len")
ReadNormal == LoadStep("normal")
ReadNormalsFooter == LoadStep("normals_footer")
ReadGroupFooter == LoadStep("group_footer")
ReadBmfFooter == LoadStep("bmf_footer")

\* load_bmf(..) returned Ok(bmf): expect unwraps it, the reader goes out of scope
LoadOk ==
    /\ pc = "return_ok"
    /\ main_bmf' = Some(bmf)
    /\ reader_open' = FALSE
    /\ pc' = "obj_verts"
    /\ UNCHANGED <<layout, input, pos, i, bmf, obj_verts, obj_shapes, object_set, out_file>>

\* the error of load_bmf swallowed, main going on with what was decoded
LoadErr_continue ==
    /\ pc = "return_err"
    /\ main_bmf' = Some(bmf)
    /\ reader_open' = FALSE
    /\ pc' = "obj_verts"
    /\ UNCHANGED <<layout, input, pos, i, bmf, obj_verts, obj_shapes, object_set, out_file>>

\* load_bmf(..) returned Err: expect panics, main never gets a document
LoadErr ==
    /\ pc = "return_err"
    /\ reader_open' = FALSE
    /\ pc' = "panic"
    /\ UNCHANGED <<layout, input, pos, i, bmf, main_rest>>

MapVertices ==
    /\ pc = "obj_verts"
    /\ obj_verts' = Some(make_obj_verts(main_bmf[1]))
    /\ pc' = "obj_shapes"
    /\ UNCHANGED <<layout, input, pos, reader_open, i, bmf, main_bmf, obj_shapes, object_set, out_file>>

MapShapes ==
    /\ pc = "obj_shapes"
    /\ obj_shapes' = Some(make_obj_shapes(main_bmf[1]))
    /\ pc' = "object_set"
    /\ UNCHANGED <<layout, input, pos, reader_open, i, bmf, main_bmf, obj_verts, object_set, out_file>>

BuildObjectSet ==
    /\ pc = "object_set"
    /\ object_set' = Some(make_object_set(obj_verts[1], obj_shapes[1]))
    /\ pc' = "export"
    /\ UNCHANGED <<layout, input, pos, reader_open, i, bmf, main_bmf, obj_verts, obj_shapes, out_file>>

\* what export_to_file(&object_set, cli.out) can do to the destination:
\* write it, fail to create it, or create it and fail while writing
ExportOutcomes == {"written", "untouched", "partial"}

Export ==
    /\ pc = "export"
    /\ \E outcome \in ExportOutcomes :
         /\ out_file' = outcome
         /\ pc' = IF outcome = "written" THEN "exit" ELSE "panic"
    /\ UNCHANGED <<layout, input, pos, reader_open, i, bmf, main_bmf, obj_verts, obj_shapes, object_set>>

Next ==
    \/ OpenFile
    \/ GetUrl
    \/ ReadBmfHeader
    \/ ReadVerticesHeader
    \/ ReadVerticesLen
    \/ ReadVertex
    \/ ReadVerticesFooter
    \/ ReadGroupHeader
    \/ ReadFacesHeader
    \/ ReadFacesLen
    \/ ReadFace
    \/ ReadFacesFooter
    \/ ReadNormalsHeader
    \/ ReadNormalsLen
    \/ ReadNormal
    \/ ReadNormalsFooter
    \/ ReadGroupFooter
    \/ ReadBmfFooter
    \/ LoadOk
    \/ LoadErr
    \/ MapVertices
    \/ MapShapes
    \/ BuildObjectSet
    \/ Export

Spec == Init /\ [][Next]_vars


(***************************************************************************)
(* Properties.                                                             *)
(***************************************************************************)
NumV == Len(layout.vertices)
NumF == Len(layout.faces)
NumN == Len(layout.normals)

\* byte offsets of the k-th record of each block in a laid-out document
VertexRecordAt(k) == 12 + 12 * (k - 1)
FaceRecordAt(k) == 28 + 12 * NumV + 12 * (k - 1)
NormalRecordAt(k) == 40 + 12 * (NumV + NumF) + 12 * (k - 1)
NormalsBlockStart == 32 + 12 * (NumV + NumF)
NormalsBlockEnd == 44 + 12 * (NumV + NumF + NumN)

\* the four bytes of the input at byte offset off
WordAt(off) == SubSeq(input, off + 1, off + 4)

\* a 32-bit pattern written least significant byte first
ToLeBytes(u) == <<u.lo % 256, u.lo \div 256, u.hi % 256, u.hi \div 256>>

EncodeVertex(v) == ToLeBytes(v.x) \o ToLeBytes(v.y) \o ToLeBytes(v.z)

EncodeFace(f) == ToLeBytes(f.a) \o ToLeBytes(f.b) \o ToLeBytes(f.c)

\* the captured fields of a decoded document, re-encoded in layout order
EncodeBMF(b) ==
    ToLeBytes(b.header)
    \o ToLeBytes(b.vertices.header)
    \o ToLeBytes(b.vertices.len)
    \o Flatten([k \in 1..Len(b.vertices.vertices) |-> EncodeVertex(b.vertices.vertices[k])])
    \o ToLeBytes(b.vertices.footer)
    \o ToLeBytes(b.group.header)
    \o ToLeBytes(b.group.faces.header)
    \o ToLeBytes(b.group.faces.len)
    \o Flatten([k \in 1..Len(b.group.faces.faces) |-> EncodeFace(b.group.faces.faces[k])])
    \o ToLeBytes(b.group.faces.footer)
    \o ToLeBytes(b.group.normals.header)
    \o ToLeBytes(b.group.normals.len)
    \o Flatten([k \in 1..Len(b.group.normals.normals) |-> EncodeVertex(b.group.normals.normals[k])])
    \o ToLeBytes(b.group.normals.footer)
    \o ToLeBytes(b.group.footer)
    \o ToLeBytes(b.footer)

AfterDecode == {"return_ok", "obj_verts", "obj_shapes", "object_set", "export", "exit"}

\* C1: for every valid stream (a whole document and nothing else) decoding
\* succeeds, and re-encoding the captured header, footer, count and record
\* fields in layout order as little-endian 32-bit values gives back the input.
C1_RoundTrip ==
    layout.cut = DocLen(layout) =>
        /\ pc # "return_err"
        /\ pc = "return_ok" => EncodeBMF(bmf) = input
        /\ main_bmf # None => EncodeBMF(main_bmf[1]) = input

C1_Witness ==
    /\ layout.cut = DocLen(layout)
    /\ layout.markers = MixedMarkers
    /\ main_bmf # None
    /\ main_bmf[1].vertices.vertices # <<>>
    /\ main_bmf[1].group.faces.faces # <<>>
    /\ main_bmf[1].group.normals.normals # <<>>

\* C2: a stream cut at any byte offset before the last byte of the document
\* (the document is 52 + 12 * (N + M + P) bytes long, so this covers every
\* offset below 40 + 12 * (N + M + P)) never decodes: load_bmf does not return
\* Ok, main never holds a document, and a finished load_bmf has returned Err
\* with the source exhausted.
C2_TruncatedFails ==
    layout.cut < DocLen(layout) =>
        /\ pc \notin AfterDecode
        /\ main_bmf = None
        /\ object_set = None
        /\ pc = "return_err" => pos = Len(input)

C2_Witness ==
    /\ layout.cut < DocLen(layout)
    /\ layout.cut % 4 # 0
    /\ pc = "return_err"
    /\ bmf.group.faces.faces # <<>>
    /\ bmf.group.normals.len.lo > 0
    /\ bmf.group.normals.normals = <<>>
    /\ layout.cut > NormalRecordAt(1)

LenIs(len, list) == len.hi = 0 /\ len.lo = Len(list)

\* C3: in each block the count field read just before the records fixes how
\* many 12-byte records are consumed: when the block's footer is about to be
\* read the list is as long as the stored len says and the reader stands
\* right after count field and records; on success the three lists have the
\* stored lengths, a count of 0 giving an empty list with its count field and
\* footer consumed.
C3_CountDeterminesRecords ==
    /\ pc = "vertices_footer" =>
         /\ LenIs(bmf.vertices.len, bmf.vertices.vertices)
         /\ ToLeBytes(bmf.vertices.len) = WordAt(8)
         /\ pos = 12 + 12 * Len(bmf.vertices.vertices)
    /\ pc = "faces_footer" =>
         /\ LenIs(bmf.group.faces.len, bmf.group.faces.faces)
         /\ pos = 28 + 12 * (Len(bmf.vertices.vertices) + Len(bmf.group.faces.faces))
         /\ ToLeBytes(bmf.group.faces.len) = WordAt(pos - 12 * Len(bmf.group.faces.faces) - 4)
    /\ pc = "normals_footer" =>
         /\ LenIs(bmf.group.normals.len, bmf.group.normals.normals)
         /\ pos = 40 + 12 * (Len(bmf.vertices.vertices) + Len(bmf.group.faces.faces)
                               + Len(bmf.group.normals.normals))
         /\ ToLeBytes(bmf.group.normals.len) = WordAt(pos - 12 * Len(bmf.group.normals.normals) - 4)
    /\ main_bmf # None =>
         /\ LenIs(main_bmf[1].vertices.len, main_bmf[1].vertices.vertices)
         /\ LenIs(main_bmf[1].group.faces.len, main_bmf[1].group.faces.faces)
         /\ LenIs(main_bmf[1].group.normals.len, main_bmf[1].group.normals.normals)
         /\ Len(main_bmf[1].vertices.vertices) = NumV
         /\ Len(main_bmf[1].group.faces.faces) = NumF
         /\ Len(main_bmf[1].group.normals.normals) = NumN
         /\ pos = 52 + 12 * (NumV + NumF + NumN)

C3_Witness ==
    /\ main_bmf # None
    /\ main_bmf[1].vertices.vertices = <<>>
    /\ main_bmf[1].vertices.len = U32Zero
    /\ main_bmf[1].group.faces.faces # <<>>
    /\ pos = 52 + 12 * (NumF + NumN)

\* C4 as claimed: a run that ends in failure has not touched the output file.
C4_NoOutputOnAnyFailure == pc = "panic" => out_file = "untouched"

\* C4 amended: the export step is reached, and the output file touched, only
\* after source acquisition and the complete decode have succeeded; a run
\* that fails acquiring the source or decoding leaves the output untouched.
C4_ExportOnlyAfterDecode ==
    /\ (pc \in {"export", "exit"} \/ out_file # "untouched") =>
         /\ main_bmf # None
         /\ object_set # None
         /\ ~reader_open
         /\ layout.cut >= DocLen(layout)
         /\ pos = DocLen(layout)
    /\ (pc = "panic" /\ main_bmf = None) => out_file = "untouched"

C4_Witness ==
    /\ pc = "panic"
    /\ main_bmf = None
    /\ pos > 0
    /\ out_file = "untouched"

NoRefs(ref) == ref[2] = None /\ ref[3] = None

PlainTriangle(shape) ==
    /\ shape.primitive.kind = "Triangle"
    /\ NoRefs(shape.primitive.v1)
    /\ NoRefs(shape.primitive.v2)
    /\ NoRefs(shape.primitive.v3)
    /\ shape.groups = <<>>
    /\ shape.smoothing_groups = <<>>

\* C5: no triangle carries a texture-coordinate or normal reference, and the
\* output is exactly one unnamed object with exactly one geometry block, no
\* material name and no group or smoothing-group tags, whatever the counts.
C5_OneObjectNoRefs ==
    /\ obj_shapes # None => \A k \in 1..Len(obj_shapes[1]) : PlainTriangle(obj_shapes[1][k])
    /\ object_set # None =>
         /\ Len(object_set[1].objects) = 1
         /\ object_set[1].objects[1].name = ""
         /\ Len(object_set[1].objects[1].geometry) = 1
         /\ object_set[1].objects[1].geometry[1].material_name = None
         /\ \A k \in 1..Len(object_set[1].objects[1].geometry[1].shapes) :
              PlainTriangle(object_set[1].objects[1].geometry[1].shapes[k])

C5_Witness ==
    /\ object_set # None
    /\ Len(object_set[1].objects[1].geometry[1].shapes) > 0
    /\ object_set[1].objects[1].vertices = <<>>

\* the numeric value of a usize index, as base-256 digits from the least significant
IndexDigits(idx) == <<idx.lo % 256, idx.lo \div 256, idx.hi % 256, idx.hi \div 256, idx.top>>

SameIndex(idx, u, off) ==
    /\ idx.top = 0 /\ idx.hi = u.hi /\ idx.lo = u.lo
    /\ IndexDigits(idx) = WordAt(off) \o <<0>>

AltMarkers ==
    MarkerChoices \cup { [ZeroMarkers EXCEPT ![f] = <<255, 255, 255, 255>>] : f \in MarkerFields }

\* every field changed at once
WholeMarkers == MarkerChoices \cup { [f \in MarkerFields |-> <<255, 255, 255, 255>>] }

\* the input with the header / footer fields replaced by m
WithMarkers(m) == StreamOf([layout EXCEPT !.markers = m])

Lists(b) ==
    <<b.vertices.len, b.vertices.vertices, b.group.faces.len, b.group.faces.faces,
      b.group.normals.len, b.group.normals.normals>>

\* C7: header and footer values are not interpreted: a stream that differs
\* from the input only in the values of header / footer fields fails when
\* the input fails (all ten fields changed), and succeeds when it succeeds
\* (all ten changed, or any one), decoding the same vertex, face and normal
\* lists and mapping to the same object graph.
C7_MarkersOpaque ==
    /\ pc = "return_err" => \A m \in WholeMarkers : ~load_bmf(WithMarkers(m)).ok
    /\ pc = "return_ok" =>
         \A m \in AltMarkers :
            LET r == load_bmf(WithMarkers(m))
            IN  r.ok /\ Lists(r.bmf[1]) = Lists(bmf)
    /\ pc = "export" =>
         \A m \in AltMarkers :
            LET r == load_bmf(WithMarkers(m))
            IN  r.ok /\ Some(map_bmf(r.bmf[1])) = object_set

C7_Witness ==
    /\ pc = "export"
    /\ layout.markers = MixedMarkers
    /\ NumV > 0 /\ NumF > 0 /\ NumN > 0
    /\ main_bmf[1].header # U32Zero
    /\ main_bmf[1].group.footer # main_bmf[1].footer

DecodedLen(b) ==
    52 + 12 * (Len(b.vertices.vertices) + Len(b.group.faces.faces) + Len(b.group.normals.normals))

\* C8 as claimed: after a successful load_bmf no unread bytes remain.
C8_ReadToCompletion == main_bmf # None => pos = Len(input)

\* C8 amended: the source is read strictly forward, and a successful load_bmf
\* has consumed exactly the 52 + 12 * (N + M + P) bytes of the document when
\* the reader is released; bytes after the document footer stay unread.
C8_ReadsExactlyTheDocument ==
    /\ [](main_bmf # None =>
            /\ ~reader_open
            /\ pos = DecodedLen(main_bmf[1])
            /\ Len(input) - pos = layout.cut - DocLen(layout))
    /\ [][pos' >= pos]_vars

C8_Witness ==
    /\ main_bmf # None
    /\ ~reader_open
    /\ pos < Len(input)

\* m * 2^e with m odd
RECURSIVE Canon(_, _)
Canon(m, e) == IF m % 2 = 0 THEN Canon(m \div 2, e + 1) ELSE <<m, e>>

\* the number a little-endian IEEE-754 binary32 at byte offset off of the input denotes
F32ValueAt(off) ==
    LET b == WordAt(off)
        sign == b[4] \div 128
        exp  == (b[4] % 128) * 2 + b[3] \div 128
        frac == (b[3] % 128) * 65536 + b[2] * 256 + b[1]
    IN  IF exp = 255 THEN (IF frac = 0 THEN [kind |-> "inf", sign |-> sign] ELSE [kind |-> "nan"])
        ELSE IF exp = 0 /\ frac = 0 THEN [kind |-> "zero", sign |-> sign]
        ELSE IF exp = 0 THEN [kind |-> "finite", sign |-> sign, value |-> Canon(frac, -149)]
        ELSE [kind |-> "finite", sign |-> sign, value |-> Canon(8388608 + frac, exp - 150)]

\* the number an IEEE-754 binary64 with fields d denotes
F64Value(d) ==
    IF d.exp = 2047
    THEN (IF d.frac_hi = 0 /\ d.frac_lo = 0 THEN [kind |-> "inf", sign |-> d.sign] ELSE [kind |-> "nan"])
    ELSE IF d.exp = 0 /\ d.frac_hi = 0 /\ d.frac_lo = 0 THEN [kind |-> "zero", sign |-> d.sign]
    ELSE IF d.exp = 0 \/ d.frac_lo # 0
    THEN \* more than 24 significant bits, or below the binary32 range
         [kind |-> "wide", sign |-> d.sign, exp |-> d.exp, frac |-> <<d.frac_hi, d.frac_lo>>]
    ELSE [kind |-> "finite", sign |-> d.sign, value |-> Canon(8388608 + d.frac_hi, d.exp - 1046)]

WithNormals(ns) == StreamOf([layout EXCEPT !.normals = ns])

\* C10: the emitted object has no normals and no texture vertices whatever
\* the normals count; a stream that decodes and differs from the input only
\* in the values of its normals records maps to the same object graph; and a
\* stream cut inside the normals block produces no object and no output.
C10_NormalsDiscarded ==
    /\ object_set # None =>
         /\ object_set[1].objects[1].normals = <<>>
         /\ object_set[1].objects[1].tex_vertices = <<>>
    /\ pc = "export" =>
         \A ns \in [1..NumN -> VertexRecords] :
            LET r == load_bmf(WithNormals(ns))
            IN  r.ok /\ Some(map_bmf(r.bmf[1])) = object_set
    /\ (layout.cut >= NormalsBlockStart /\ layout.cut < NormalsBlockEnd) =>
         /\ pc \notin AfterDecode
         /\ object_set = None
         /\ out_file = "untouched"

C10_Witness ==
    /\ pc = "export"
    /\ NumN > 0
    /\ main_bmf[1].group.normals.normals # <<>>
    /\ object_set[1].objects[1].normals = <<>>

====
